---- MODULE Spec2Model ----
(***************************************************************************)
(* A model of ml-cli.py, the command-line harness of the CLAS12 track      *)
(* classifiers: main, parse_arguments, get_subroutine, read_input_data,    *)
(* train_model, test_model, predict and the two report printers.  The      *)
(* collaborators the script imports                                        *)
(* (utils.svm_utils and models) are modelled from their specified contracts. *)
(***************************************************************************)
EXTENDS Integers, Sequences, FiniteSets, TLC

VARIABLES
    training_dir,   \* contents of args.training_dir_path: entry name -> entry
    testing_dir,    \* contents of args.testing_dir_path
    input_type,     \* first argument of a direct read_input_data call
    train_files,    \* what glob returned for the training directory in the last read
    test_files,     \* what glob returned for the testing directory in the last read
    input_dict,     \* the dictionary read_input_data returned
    subprogram,     \* args.subprogram
    model_type,     \* args.model_type
    subroutine,     \* the function get_subroutine returned
    pc,             \* position of the running routine
    model,          \* the local variable `model` of the running subcommand
    construction,   \* the constructor call the subcommand made: class, in_dict passed
    calls,          \* the model operations invoked so far, in order
    err,            \* the exception that ended the routine, "none" if none
    exited,         \* TRUE once the process was ended (quit(), argparse exit)
    stdout,         \* the reports printed so far
    saved,          \* the model file save_model wrote, "none" if none
    prediction_output, \* TRUE once the prediction output file has been written
    training_dict,  \* the report model.train returned
    y_true,         \* the labels of the records handed to model.test
    y_pred,         \* the predictions the model made for those records
    testing_dict    \* the report model.test returned

vars == <<training_dir, testing_dir, input_type, train_files, test_files, input_dict,
          subprogram, model_type, subroutine, pc, model, construction, calls, err, exited,
          stdout, saved, prediction_output, training_dict, y_true, y_pred, testing_dict>>

(***************************************************************************)
(* Bounds and fixed universes.                                             *)
(***************************************************************************)
MaxLines == 2          \* lines per file of a testing directory
MaxTrainLines == 1     \* lines per file of a training directory
MaxCliRecords == 2     \* testing records while a whole subcommand is run

\* entry names, character by character, as the glob pattern reads them
a_txt == <<"a", ".", "t", "x", "t">>
b_txt == <<"b", ".", "t", "x", "t">>
t_txt == <<"t", ".", "t", "x", "t">>
c_dat == <<"c", ".", "d", "a", "t">>
h_txt == <<".", "h", ".", "t", "x", "t">>
A_TXT == <<"A", ".", "T", "X", "T">>
d_txt == <<"d", ".", "t", "x", "t">>

TestFiles == {a_txt, b_txt}
TrainFiles == {t_txt}
OtherFiles == {c_dat, h_txt, A_TXT}   \* files the pattern leaves out
SubDirs == {d_txt}                    \* a sub-directory the pattern lets in
RawLabels == {0, 1, 2}   \* labels that occur in the files; 0 has no class

\* args of the three subparsers
training_epochs == 5
training_batch_size == 16
evaluation_batch_size == 16

(***************************************************************************)
(* Sequences.                                                              *)
(***************************************************************************)
SeqsUpTo(S, n) == UNION {[1..k -> S] : k \in 0..n}

Range(s) == {s[i] : i \in DOMAIN s}

RECURSIVE SumSeq(_)
SumSeq(s) == IF s = <<>> THEN 0 ELSE Head(s) + SumSeq(Tail(s))


(***************************************************************************)
(* Classes.  The table from raw label to class key is external to the      *)
(* script; labels outside it are unknown.                                  *)
(***************************************************************************)
ClassOrder == <<"A1", "Ac", "Ah", "Af">>
ClassKey == Range(ClassOrder)
ClassTable == [l \in 1..4 |-> ClassOrder[l]]

(***************************************************************************)
(* Directories and datasets.  A record is identified by the file and line  *)
(* it came from; a dataset is an index-aligned pair of record rows and     *)
(* labels.                                                                 *)
(***************************************************************************)
File(lines) == [kind |-> "file", lines |-> lines]
SubDirectory == [kind |-> "dir", lines |-> <<>>]

\* a directory that is missing or has no entry
NoDirectory == [f \in {} |-> SubDirectory]

DirContents(files, n) == [files -> {File(l) : l \in SeqsUpTo(RawLabels, n)}]

\* what else a data directory may hold: nothing, files of other names, a sub-directory
ExtraEntries ==
    {NoDirectory, [f \in OtherFiles |-> File(<<1>>)], [f \in SubDirs |-> SubDirectory]}

TestingDirs(n) ==
    {d @@ e : d \in DirContents(TestFiles, n), e \in ExtraEntries} \cup {NoDirectory}

TrainingDirs(n) == DirContents(TrainFiles, n) \cup {NoDirectory}

\* the testing directories that hold at most n lines in all
SmallTestingDirs(n) ==
    {d \in DirContents(TestFiles, n) : Len(d[a_txt].lines) + Len(d[b_txt].lines) <= n}
        \cup {NoDirectory}

EmptyDataset == [err |-> "none", data |-> <<>>, labels |-> <<>>]

\* the pattern '*.txt' of glob: the suffix, case as written, and no leading dot
txt_suffix == <<".", "t", "x", "t">>

MatchesTxt(name) ==
    /\ Len(name) >= Len(txt_suffix)
    /\ SubSeq(name, Len(name) - Len(txt_suffix) + 1, Len(name)) = txt_suffix
    /\ name[1] # "."

\* glob.glob(dir/*.txt): the matching entries, in whatever order the OS lists them
enumerate_data_files_in_dir(dir) ==
    LET found == {f \in DOMAIN dir : MatchesTxt(f)}
    IN {p \in [1..Cardinality(found) -> found] :
            \A i, j \in DOMAIN p : p[i] = p[j] => i = j}

\* the records of one file, in line order; a path that is no file cannot be read
read_svm_file(dir, f) ==
    IF dir[f].kind # "file"
    THEN [err |-> "DatasetIOError", data |-> <<>>, labels |-> <<>>]
    ELSE [err |-> "none",
          data |-> [i \in 1..Len(dir[f].lines) |-> <<f, i>>],
          labels |-> dir[f].lines]

\* the records of the files in list order, then line order; the first failure ends it
RECURSIVE read_concat_svm_files(_, _)
read_concat_svm_files(dir, filenames) ==
    IF filenames = <<>> THEN EmptyDataset
    ELSE LET first == read_svm_file(dir, Head(filenames))
             rest == read_concat_svm_files(dir, Tail(filenames))
         IN IF first.err # "none" THEN first
            ELSE IF rest.err # "none" THEN rest
            ELSE [err |-> "none", data |-> first.data \o rest.data,
                  labels |-> first.labels \o rest.labels]

\* the rows of s whose label in y belongs to class k, in their order in s
RECURSIVE SelectClass(_, _, _)
SelectClass(s, y, k) ==
    IF s = <<>> THEN <<>>
    ELSE (IF ClassTable[Head(y)] = k THEN <<Head(s)>> ELSE <<>>)
         \o SelectClass(Tail(s), Tail(y), k)

\* segment_svm_data with the label vector left whole in every segment
segment_svm_data_unmasked_labels(X, y) ==
    IF \E i \in DOMAIN y : y[i] \notin DOMAIN ClassTable
    THEN [err |-> "UnknownClassLabelError",
          X |-> [k \in ClassKey |-> <<>>], y |-> [k \in ClassKey |-> <<>>]]
    ELSE [err |-> "none",
          X |-> [k \in ClassKey |-> SelectClass(X, y, k)],
          y |-> [k \in ClassKey |-> y]]

\* the per-class partition of a dataset; fails on a label outside the table
segment_svm_data(X, y) ==
    IF \E i \in DOMAIN y : y[i] \notin DOMAIN ClassTable
    THEN [err |-> "UnknownClassLabelError",
          X |-> [k \in ClassKey |-> <<>>], y |-> [k \in ClassKey |-> <<>>]]
    ELSE [err |-> "none",
          X |-> [k \in ClassKey |-> SelectClass(X, y, k)],
          y |-> [k \in ClassKey |-> SelectClass(y, y, k)]]

NoSegments == [data |-> [k \in ClassKey |-> <<>>], labels |-> [k \in ClassKey |-> <<>>]]

\* the value of input_dict before read_input_data has returned one
NoDict == [keys |-> {},
           training |-> [data |-> <<>>, labels |-> <<>>, epochs |-> 0, batch_size |-> 0],
           testing |-> [data |-> <<>>, labels |-> <<>>, batch_size |-> 0],
           testing_segmented |-> NoSegments,
           total_test_samples |-> 0]

\* Python's len() of a mapping: the number of its keys
len_of_mapping(m) == Cardinality(DOMAIN m)

\* what a call that did not return leaves behind
Raised(e) == [err |-> e, exited |-> e = "SystemExit", ret |-> NoDict]

\* read_input_data(input_type, args), given what glob returned for each directory
read_input_data(itype, trdir, tedir, trfiles, tefiles) ==
    IF itype = "train" THEN
        LET train == read_concat_svm_files(trdir, trfiles)
            test == read_concat_svm_files(tedir, tefiles)
            seg == segment_svm_data(test.data, test.labels)
            total_test_samples == len_of_mapping(seg.y)
        IN IF train.err # "none" THEN Raised(train.err)
           ELSE IF test.err # "none" THEN Raised(test.err)
           ELSE IF seg.err # "none" THEN Raised(seg.err)
           ELSE [err |-> "none", exited |-> FALSE,
                 ret |-> [keys |-> {"training", "testing", "testing_segmented",
                                    "total_test_samples"},
                          training |-> [data |-> train.data, labels |-> train.labels,
                                        epochs |-> training_epochs,
                                        batch_size |-> training_batch_size],
                          testing |-> [data |-> test.data, labels |-> test.labels,
                                       batch_size |-> evaluation_batch_size],
                          testing_segmented |-> [data |-> seg.X, labels |-> seg.y],
                          total_test_samples |-> total_test_samples]]
    ELSE IF itype = "test" THEN
        LET test == read_concat_svm_files(tedir, tefiles)
            seg == segment_svm_data(test.data, test.labels)
            total_test_samples == len_of_mapping(seg.y)
        IN IF test.err # "none" THEN Raised(test.err)
           ELSE IF seg.err # "none" THEN Raised(seg.err)
           ELSE [err |-> "none", exited |-> FALSE,
                 ret |-> [keys |-> {"testing", "testing_segmented", "total_test_samples"},
                          training |-> NoDict.training,
                          testing |-> [data |-> test.data, labels |-> test.labels,
                                       batch_size |-> evaluation_batch_size],
                          testing_segmented |-> [data |-> seg.X, labels |-> seg.y],
                          total_test_samples |-> total_test_samples]]
    ELSE Raised("SystemExit")      \* prints "Wrong input type." and calls quit()

\* the files glob hands to one read: the training directory is listed only for "train"
GlobTraining(itype, dir) ==
    IF itype = "train" THEN enumerate_data_files_in_dir(dir) ELSE {<<>>}

GlobTesting(itype, dir) ==
    IF itype \in {"train", "test"} THEN enumerate_data_files_in_dir(dir) ELSE {<<>>}

(***************************************************************************)
(* The model objects.  ml-cli.py only constructs them and calls their      *)
(* operations; the lifecycle is that of the model interface.               *)
(***************************************************************************)
NoModel == [kind |-> "None", state |-> "Unbuilt", in_dict |-> FALSE]
UnboundModel == [kind |-> "Unbound", state |-> "Unbuilt", in_dict |-> FALSE]

\* A constructor call yields the new object and the error it raised.
Constructed(kind, given) ==
    [object |-> [kind |-> kind, state |-> "Unbuilt", in_dict |-> given], err |-> "none"]

ExtraTreesModel == Constructed("ExtraTreesModel", FALSE)
MlpModel == Constructed("MlpModel", FALSE)

\* given: whether the constructor received in_dict.  The convolutional network
\* takes its architecture from the dataset shape metadata, which it requires
\* when it is constructed: without in_dict the constructor raises.
CnnModel(given) ==
    IF given THEN Constructed("CnnModel", TRUE)
    ELSE [object |-> [kind |-> "CnnModel", state |-> "Unbuilt", in_dict |-> FALSE],
          err |-> "TypeError"]

\* no branch of the if/elif chain was taken: the variable keeps the value prior
NotConstructed(prior) == [object |-> prior, err |-> "none"]

NoConstruction == [kind |-> "None", in_dict |-> FALSE]

\* model = <constructor call>: the variable is bound only when the constructor
\* returns, and the call is on record either way
Assign(prior, made, c) ==
    [model |-> IF c.err = "none" THEN c.object ELSE prior,
     construction |-> IF c.object = prior THEN made
                      ELSE [kind |-> c.object.kind, in_dict |-> c.object.in_dict],
     err |-> c.err]

\* a call on a variable that holds no model object
NoObjectError(m) ==
    IF m.kind = "None" THEN "AttributeError"
    ELSE IF m.kind = "Unbound" THEN "UnboundLocalError"
    ELSE "none"

\* Each operation yields the model after the call and the error it raised.
\* ok is FALSE when the backend or the file system fails the call.
build_new_model(m) == [model |-> [m EXCEPT !.state = "Built"], err |-> "none"]

train(m, ok) ==
    IF m.state \notin {"Built", "Loaded"} THEN [model |-> m, err |-> "NotBuiltError"]
    ELSE IF ~ok THEN [model |-> m, err |-> "BackendError"]
    ELSE [model |-> [m EXCEPT !.state = "Trained"], err |-> "none"]

test(m, ok) ==
    IF m.state \notin {"Trained", "Loaded"} THEN [model |-> m, err |-> "NotBuiltError"]
    ELSE IF ~ok THEN [model |-> m, err |-> "BackendError"]
    ELSE [model |-> m, err |-> "none"]

save_model(m, ok) ==
    IF ~ok THEN [model |-> m, err |-> "PersistenceError"]
    ELSE [model |-> m, err |-> "none"]

load_model(m, ok) ==
    IF ~ok THEN [model |-> m, err |-> "PersistenceError"]
    ELSE [model |-> [m EXCEPT !.state = "Loaded"], err |-> "none"]

\* one entry of the call log: the operation, the model state it found, the error it raised
Call(op, m, e) == [op |-> op, state |-> m.state, err |-> e]

(***************************************************************************)
(* The testing report.  model.test builds testing_dict with the metrics    *)
(* evaluator; print_testing_report prints its fields.  An accuracy is the  *)
(* fraction num/den; den = 0 marks a class accuracy that is undefined.     *)
(***************************************************************************)
Accuracy(correct, total) ==
    IF total = 0 THEN [num |-> 0, den |-> 1] ELSE [num |-> correct, den |-> total]

ClassAccuracy(correct, total) ==
    IF total = 0 THEN [num |-> 0, den |-> 0] ELSE [num |-> correct, den |-> total]

\* rows are true classes, columns predicted classes, both in ClassOrder
confusion_matrix(truth, pred) ==
    [i \in DOMAIN ClassOrder |-> [j \in DOMAIN ClassOrder |->
        Cardinality({n \in DOMAIN truth :
            ClassTable[truth[n]] = ClassOrder[i] /\ ClassTable[pred[n]] = ClassOrder[j]})]]

\* metrics_evaluator with the global accuracy taken over the number of
\* classes instead of the number of records
metrics_evaluator_divides_by_classes(truth, pred) ==
    LET hits == {n \in DOMAIN truth : pred[n] = truth[n]}
        of_class(k) == {n \in DOMAIN truth : ClassTable[truth[n]] = k}
        acc(k) == ClassAccuracy(Cardinality(of_class(k) \cap hits), Cardinality(of_class(k)))
    IN [accuracy_testing |-> Accuracy(Cardinality(hits), Len(confusion_matrix(truth, pred))),
        testing_prediction_time |-> 0,
        confusion_matrix |-> confusion_matrix(truth, pred),
        accuracy_A1 |-> acc("A1"), accuracy_Ac |-> acc("Ac"),
        accuracy_Ah |-> acc("Ah"), accuracy_Af |-> acc("Af")]

metrics_evaluator(truth, pred) ==
    LET hits == {n \in DOMAIN truth : pred[n] = truth[n]}
        of_class(k) == {n \in DOMAIN truth : ClassTable[truth[n]] = k}
        acc(k) == ClassAccuracy(Cardinality(of_class(k) \cap hits), Cardinality(of_class(k)))
    IN [accuracy_testing |-> Accuracy(Cardinality(hits), Len(truth)),
        testing_prediction_time |-> 0,
        confusion_matrix |-> confusion_matrix(truth, pred),
        accuracy_A1 |-> acc("A1"), accuracy_Ac |-> acc("Ac"),
        accuracy_Ah |-> acc("Ah"), accuracy_Af |-> acc("Af")]

NoReport == metrics_evaluator(<<>>, <<>>)

NoTrainingReport == [training_time |-> 0, accuracy_training |-> Accuracy(0, 0)]

\* the lines print_training_report writes
print_training_report(td) ==
    [title |-> "Training Report",
     training_accuracy |-> td.accuracy_training,
     training_time |-> td.training_time]

\* the lines print_testing_report writes
print_testing_report(td) ==
    [title |-> "Testing Report",
     testing_accuracy |-> td.accuracy_testing,
     testing_prediction_time |-> td.testing_prediction_time,
     confusion_matrix |-> td.confusion_matrix,
     accuracy_A1 |-> td.accuracy_A1, accuracy_Ac |-> td.accuracy_Ac,
     accuracy_Ah |-> td.accuracy_Ah, accuracy_Af |-> td.accuracy_Af]

(***************************************************************************)
(* parse_arguments, get_subroutine and the construction of the model in    *)
(* each subcommand.                                                        *)
(***************************************************************************)
Commands == {"train", "test", "predict", "export", "none"}  \* "none": no command given
Subprograms == {"train", "test", "predict", "export"}
ModelTypes == {"et", "mlp", "cnn", "svm"}
InputTypes == {"train", "test", "predict"}
Recognized == {"et", "mlp", "cnn"}

\* argparse: the sub-command is required and one of three, --model-type is one
\* of its choices; anything else ends the process with exit status 2
parse_arguments(cmd, mt) ==
    IF cmd \in {"train", "test", "predict"} /\ mt \in {"cnn", "mlp", "et"}
    THEN [err |-> "none", subprogram |-> cmd, model_type |-> mt]
    ELSE [err |-> "SystemExit", subprogram |-> "none", model_type |-> "none"]

get_subroutine(sp) ==
    IF sp = "train" THEN [ret |-> "train_model", err |-> "none"]
    ELSE IF sp = "test" THEN [ret |-> "test_model", err |-> "none"]
    ELSE IF sp = "predict" THEN [ret |-> "predict", err |-> "none"]
    ELSE [ret |-> "none", err |-> "SystemExit"]   \* prints "Wrong subprogram" and calls quit()

\* train_model: model = None, then the if/elif chain on args.model_type
train_model_construct(mt, d) ==
    IF mt = "et" THEN ExtraTreesModel
    ELSE IF mt = "mlp" THEN MlpModel
    ELSE IF mt = "cnn" THEN CnnModel("total_test_samples" \in d.keys)
    ELSE NotConstructed(NoModel)

\* test_model: the same chain
test_model_construct(mt, d) ==
    IF mt = "et" THEN ExtraTreesModel
    ELSE IF mt = "mlp" THEN MlpModel
    ELSE IF mt = "cnn" THEN CnnModel("total_test_samples" \in d.keys)
    ELSE NotConstructed(NoModel)

\* predict: no initial assignment, and CnnModel() takes no argument
predict_construct(mt) ==
    IF mt = "et" THEN ExtraTreesModel
    ELSE IF mt = "mlp" THEN MlpModel
    ELSE IF mt = "cnn" THEN CnnModel(FALSE)
    ELSE NotConstructed(UnboundModel)

(***************************************************************************)
(* Running a subcommand: main, get_subroutine, then the steps of           *)
(* train_model, test_model or predict.  An exception ends the routine.     *)
(***************************************************************************)
inputs == <<training_dir, testing_dir, input_type>>
reports == <<y_true, y_pred, testing_dict>>
metrics == <<training_dict, y_true, y_pred, testing_dict>>

\* the call of one model operation whose outcome is r, continuing at next
ModelCall(op, r, next) ==
    /\ calls' = Append(calls, Call(op, model, r.err))
    /\ model' = r.model
    /\ err' = r.err
    /\ pc' = IF r.err = "none" THEN next ELSE "done"

\* the call fails before it starts: the variable holds no model object
NoObject ==
    /\ NoObjectError(model) # "none"
    /\ err' = NoObjectError(model)
    /\ pc' = "done"
    /\ UNCHANGED <<model, calls>>

\* the labels a model may predict for the records it is given
Predictions(labels) == [DOMAIN labels -> DOMAIN ClassTable]

\* testing_dict = model.test(input_dict): the testing labels are handed to the
\* model, which predicts a label for every record and evaluates the predictions
ModelTestCall(next) ==
    LET labels == input_dict.testing.labels
    IN \E ok \in BOOLEAN, p \in Predictions(labels) :
        LET r == test(model, ok)
        IN /\ ModelCall("test", r, next)
           /\ y_true' = labels
           /\ IF r.err = "none"
              THEN /\ y_pred' = p
                   /\ testing_dict' = metrics_evaluator(labels, p)
              ELSE UNCHANGED <<y_pred, testing_dict>>

\* main, line 21: parse_arguments yields args or ends the process
Main ==
    /\ pc = "main"
    /\ \E cmd \in Commands, mt \in ModelTypes :
        LET a == parse_arguments(cmd, mt)
        IN /\ subprogram' = a.subprogram
           /\ model_type' = a.model_type
           /\ err' = a.err
           /\ exited' = (a.err = "SystemExit")
           /\ pc' = IF a.err = "none" THEN "get_subroutine" ELSE "done"
    /\ UNCHANGED <<inputs, construction, metrics, train_files, test_files, input_dict, subroutine,
                   model, calls, stdout, saved, prediction_output>>

\* main, lines 24-25: get_subroutine(args), then the subroutine it returned
GetSubroutine ==
    /\ pc = "get_subroutine"
    /\ LET r == get_subroutine(subprogram)
       IN /\ subroutine' = r.ret
          /\ err' = r.err
          /\ exited' = (r.err = "SystemExit")
          /\ pc' = IF r.err = "none" THEN r.ret ELSE "done"
    /\ UNCHANGED <<inputs, construction, metrics, train_files, test_files, input_dict, subprogram,
                   model_type, model, calls, stdout, saved, prediction_output>>

\* get_subroutine(args) called on its own, with any args.subprogram
CallGetSubroutine ==
    /\ pc = "call"
    /\ \E sp \in Subprograms :
        LET r == get_subroutine(sp)
        IN /\ subprogram' = sp
           /\ subroutine' = r.ret
           /\ err' = r.err
           /\ exited' = (r.err = "SystemExit")
    /\ pc' = "done"
    /\ UNCHANGED <<inputs, construction, metrics, train_files, test_files, input_dict, model_type,
                   model, calls, stdout, saved, prediction_output>>

\* train_model(args), test_model(args) or predict(args) called on its own, with
\* any args.model_type
CallSubcommand ==
    /\ pc = "call"
    /\ \E f \in {"train_model", "test_model", "predict"}, mt \in ModelTypes :
        /\ subroutine' = f
        /\ model_type' = mt
        /\ pc' = f
    /\ UNCHANGED <<inputs, construction, metrics, train_files, test_files, input_dict, subprogram,
                   model, calls, err, exited, stdout, saved, prediction_output>>

\* train_model, lines 173-183: read the input, construct the model
TrainModelBegin ==
    /\ pc = "train_model"
    /\ \E trf \in GlobTraining("train", training_dir),
          tef \in GlobTesting("train", testing_dir) :
        LET r == read_input_data("train", training_dir, testing_dir, trf, tef)
            a == Assign(NoModel, construction, train_model_construct(model_type, r.ret))
        IN /\ train_files' = trf
           /\ test_files' = tef
           /\ input_dict' = r.ret
           /\ exited' = r.exited
           /\ IF r.err = "none"
              THEN /\ model' = a.model
                   /\ construction' = a.construction
                   /\ err' = a.err
                   /\ pc' = IF a.err = "none" THEN "train_build" ELSE "done"
              ELSE /\ err' = r.err
                   /\ pc' = "done"
                   /\ UNCHANGED <<model, construction>>
    /\ UNCHANGED <<inputs, metrics, subprogram, model_type, subroutine, calls, stdout,
                   saved, prediction_output>>

\* line 185
TrainModelBuild ==
    /\ pc = "train_build"
    /\ \/ NoObject
       \/ /\ NoObjectError(model) = "none"
          /\ ModelCall("build_new_model", build_new_model(model), "train_train")
    /\ UNCHANGED <<inputs, construction, metrics, train_files, test_files, input_dict, subprogram,
                   model_type, subroutine, exited, stdout, saved, prediction_output>>

\* line 186: training_dict = model.train(input_dict); the model reports the
\* share of the training records it gets right
TrainModelTrain ==
    /\ pc = "train_train"
    /\ \E ok \in BOOLEAN, correct \in 0..Len(input_dict.training.labels) :
        LET r == train(model, ok)
        IN /\ ModelCall("train", r, "train_test")
           /\ IF r.err = "none"
              THEN training_dict' =
                    [training_time |-> 0,
                     accuracy_training |->
                        Accuracy(correct, Len(input_dict.training.labels))]
              ELSE UNCHANGED training_dict
    /\ UNCHANGED <<inputs, construction, reports, train_files, test_files, input_dict, subprogram,
                   model_type, subroutine, exited, stdout, saved, prediction_output>>

\* TrainModelTest with the exception of a failed test swallowed
TrainModelTestContinues ==
    /\ pc = "train_test"
    /\ \E ok \in BOOLEAN, p \in Predictions(input_dict.testing.labels) :
        LET r == test(model, ok)
        IN /\ calls' = Append(calls, Call("test", model, r.err))
           /\ model' = r.model
           /\ err' = "none"
           /\ pc' = "train_report"
           /\ y_true' = input_dict.testing.labels
           /\ y_pred' = p
           /\ testing_dict' = metrics_evaluator(input_dict.testing.labels, p)
    /\ UNCHANGED <<inputs, construction, training_dict, train_files, test_files, input_dict,
                   subprogram, model_type, subroutine, exited, stdout, saved,
                   prediction_output>>

\* line 188
TrainModelTest ==
    /\ pc = "train_test"
    /\ ModelTestCall("train_report")
    /\ UNCHANGED <<inputs, construction, training_dict, train_files, test_files, input_dict,
                   subprogram, model_type, subroutine, exited, stdout, saved,
                   prediction_output>>

\* lines 190-191
TrainModelReport ==
    /\ pc = "train_report"
    /\ stdout' = stdout \o <<print_training_report(training_dict),
                             print_testing_report(testing_dict)>>
    /\ pc' = "train_save"
    /\ UNCHANGED <<inputs, construction, metrics, train_files, test_files, input_dict, subprogram,
                   model_type, subroutine, model, calls, err, exited, saved,
                   prediction_output>>

\* line 193
TrainModelSave ==
    /\ pc = "train_save"
    /\ \E ok \in BOOLEAN :
        /\ ModelCall("save_model", save_model(model, ok), "done")
        /\ saved' = IF ok THEN model.kind ELSE saved
    /\ UNCHANGED <<inputs, construction, metrics, train_files, test_files, input_dict, subprogram,
                   model_type, subroutine, exited, stdout, prediction_output>>

\* test_model, lines 203-213: read the input, construct the model
TestModelBegin ==
    /\ pc = "test_model"
    /\ \E trf \in GlobTraining("test", training_dir),
          tef \in GlobTesting("test", testing_dir) :
        LET r == read_input_data("test", training_dir, testing_dir, trf, tef)
            a == Assign(NoModel, construction, test_model_construct(model_type, r.ret))
        IN /\ train_files' = trf
           /\ test_files' = tef
           /\ input_dict' = r.ret
           /\ exited' = r.exited
           /\ IF r.err = "none"
              THEN /\ model' = a.model
                   /\ construction' = a.construction
                   /\ err' = a.err
                   /\ pc' = IF a.err = "none" THEN "test_load" ELSE "done"
              ELSE /\ err' = r.err
                   /\ pc' = "done"
                   /\ UNCHANGED <<model, construction>>
    /\ UNCHANGED <<inputs, metrics, subprogram, model_type, subroutine, calls, stdout,
                   saved, prediction_output>>

\* TestModelLoad with the call of load_model left out
TestModelSkipsLoad ==
    /\ pc = "test_load"
    /\ pc' = "test_test"
    /\ UNCHANGED <<inputs, construction, metrics, train_files, test_files, input_dict, subprogram,
                   model_type, subroutine, model, calls, err, exited, stdout, saved,
                   prediction_output>>

\* line 215
TestModelLoad ==
    /\ pc = "test_load"
    /\ \/ NoObject
       \/ /\ NoObjectError(model) = "none"
          /\ \E ok \in BOOLEAN : ModelCall("load_model", load_model(model, ok), "test_test")
    /\ UNCHANGED <<inputs, construction, metrics, train_files, test_files, input_dict, subprogram,
                   model_type, subroutine, exited, stdout, saved, prediction_output>>

\* line 217
TestModelTest ==
    /\ pc = "test_test"
    /\ ModelTestCall("test_report")
    /\ UNCHANGED <<inputs, construction, training_dict, train_files, test_files, input_dict, subprogram,
                   model_type, subroutine, exited, stdout, saved, prediction_output>>

\* line 219
TestModelReport ==
    /\ pc = "test_report"
    /\ stdout' = Append(stdout, print_testing_report(testing_dict))
    /\ pc' = "done"
    /\ UNCHANGED <<inputs, construction, metrics, train_files, test_files, input_dict, subprogram,
                   model_type, subroutine, model, calls, err, exited, saved,
                   prediction_output>>

\* predict, lines 223-228: construct the model
PredictBegin ==
    /\ pc = "predict"
    /\ LET a == Assign(UnboundModel, construction, predict_construct(model_type))
       IN /\ model' = a.model
          /\ construction' = a.construction
          /\ err' = a.err
          /\ pc' = IF a.err = "none" THEN "predict_load" ELSE "done"
    /\ UNCHANGED <<inputs, metrics, train_files, test_files, input_dict, subprogram,
                   model_type, subroutine, calls, exited, stdout, saved,
                   prediction_output>>

\* PredictLoad carried on to a prediction written to the output file
PredictLoadThenPredicts ==
    /\ pc = "predict_load"
    /\ \/ NoObject /\ UNCHANGED prediction_output
       \/ /\ NoObjectError(model) = "none"
          /\ \E ok \in BOOLEAN :
              LET r == load_model(model, ok)
              IN /\ calls' = IF r.err = "none"
                             THEN <<Call("load_model", model, r.err),
                                    Call("predict", r.model, "none")>>
                             ELSE Append(calls, Call("load_model", model, r.err))
                 /\ model' = r.model
                 /\ err' = r.err
                 /\ prediction_output' = (r.err = "none")
                 /\ pc' = "done"
    /\ UNCHANGED <<inputs, construction, metrics, train_files, test_files, input_dict, subprogram,
                   model_type, subroutine, exited, stdout, saved>>

\* lines 230-233: load the model, then raise NotImplementedError
PredictLoad ==
    /\ pc = "predict_load"
    /\ \/ NoObject
       \/ /\ NoObjectError(model) = "none"
          /\ \E ok \in BOOLEAN :
              LET r == load_model(model, ok)
              IN /\ calls' = Append(calls, Call("load_model", model, r.err))
                 /\ model' = r.model
                 /\ err' = IF r.err = "none" THEN "NotImplementedError" ELSE r.err
                 /\ pc' = "done"
    /\ UNCHANGED <<inputs, construction, metrics, train_files, test_files, input_dict, subprogram,
                   model_type, subroutine, exited, stdout, saved, prediction_output>>

Defaults ==
    /\ train_files = <<>>
    /\ test_files = <<>>
    /\ input_dict = NoDict
    /\ subprogram = "none"
    /\ model_type = "none"
    /\ subroutine = "none"
    /\ model = NoModel
    /\ construction = NoConstruction
    /\ calls = <<>>
    /\ err = "none"
    /\ exited = FALSE
    /\ stdout = <<>>
    /\ saved = "none"
    /\ prediction_output = FALSE
    /\ training_dict = NoTrainingReport
    /\ y_true = <<>>
    /\ y_pred = <<>>
    /\ testing_dict = NoReport

Subcommand ==
    \/ TrainModelBegin
    \/ TrainModelBuild
    \/ TrainModelTrain
    \/ TrainModelTest
    \/ TrainModelReport
    \/ TrainModelSave
    \/ TestModelBegin
    \/ TestModelLoad
    \/ TestModelTest
    \/ TestModelReport
    \/ PredictBegin
    \/ PredictLoad

\* the script run from the command line
Init ==
    /\ training_dir \in TrainingDirs(MaxTrainLines)
    /\ testing_dir \in SmallTestingDirs(MaxCliRecords)
    /\ input_type = "none"
    /\ pc = "main"
    /\ Defaults

Next ==
    \/ Main
    \/ GetSubroutine
    \/ Subcommand

Spec == Init /\ [][Next]_vars

(***************************************************************************)
(* The functions of the script called on their own, with arguments that    *)
(* parse_arguments would not let through.                                  *)
(***************************************************************************)
InitCall ==
    /\ training_dir \in TrainingDirs(MaxTrainLines)
    /\ testing_dir \in SmallTestingDirs(MaxCliRecords)
    /\ input_type = "none"
    /\ pc = "call"
    /\ Defaults

NextCall ==
    \/ CallGetSubroutine
    \/ CallSubcommand
    \/ Subcommand

SpecCall == InitCall /\ [][NextCall]_vars

(***************************************************************************)
(* read_input_data called on its own, once per run of the program over the *)
(* same directories with the same arguments.                               *)
(***************************************************************************)
ReadInputData ==
    /\ pc \in {"read_input_data", "returned"}
    /\ \E trf \in GlobTraining(input_type, training_dir),
          tef \in GlobTesting(input_type, testing_dir) :
        LET r == read_input_data(input_type, training_dir, testing_dir, trf, tef)
        IN /\ train_files' = trf
           /\ test_files' = tef
           /\ input_dict' = r.ret
           /\ err' = r.err
           /\ exited' = r.exited
    /\ pc' = "returned"
    /\ UNCHANGED <<inputs, construction, metrics, subprogram, model_type, subroutine, model, calls,
                   stdout, saved, prediction_output>>

InitData ==
    /\ training_dir \in TrainingDirs(MaxTrainLines)
    /\ testing_dir \in TestingDirs(MaxLines)
    /\ input_type \in InputTypes
    /\ pc = "read_input_data"
    /\ Defaults

NextData == ReadInputData

SpecData == InitData /\ [][NextData]_vars

(***************************************************************************)
(* Properties.                                                             *)
(***************************************************************************)
Ops(log) == [i \in DOMAIN log |-> log[i].op]

IsPrefix(s, t) == Len(s) <= Len(t) /\ \A i \in DOMAIN s : s[i] = t[i]

TrainOrder == <<"build_new_model", "train", "test", "save_model">>
TestOrder == <<"load_model", "test">>
PredictOrder == <<"load_model">>

ModelKind(mt) ==
    IF mt = "et" THEN "ExtraTreesModel" ELSE IF mt = "mlp" THEN "MlpModel" ELSE "CnnModel"

\* the failures the design names; a process exit is not one of them
TypedErrors == {"MalformedRecordError", "DatasetIOError", "DimensionMismatchError",
                "UnknownClassLabelError", "NotBuiltError", "AlreadyBuiltError",
                "PersistenceError", "UnsupportedModelTypeError"}

\* C1: in train_model, for every recognized model type, the model operations
\* are invoked in the order build_new_model, train, test, save_model, each at
\* most once and all four in a run that ends normally; test and save_model
\* find the model Trained; a call that fails is the last call, so save_model
\* is never reached after a failed train or test.
C1_TrainOrder ==
    (subroutine = "train_model" /\ model_type \in Recognized) =>
        /\ IsPrefix(Ops(calls), TrainOrder)
        /\ \A i \in DOMAIN calls :
            /\ calls[i].op \in {"test", "save_model"} => calls[i].state = "Trained"
            /\ calls[i].err # "none" => i = Len(calls) /\ pc = "done" /\ err = calls[i].err
        /\ (pc = "done" /\ err = "none") => Ops(calls) = TrainOrder
        /\ saved # "none" => Ops(calls) = TrainOrder /\ \A i \in DOMAIN calls : calls[i].err = "none"

C1_Witness ==
    /\ subroutine = "train_model"
    /\ model_type = "cnn"
    /\ pc = "done"
    /\ err = "none"
    /\ Ops(calls) = TrainOrder
    /\ saved = "CnnModel"

\* C2: in test_model, for every recognized model type, load_model is invoked
\* before test, test never finds the model Unbuilt, build_new_model, train and
\* save_model are never invoked, and nothing is saved.
C2_TestLoadsThenTests ==
    (subroutine = "test_model" /\ model_type \in Recognized) =>
        /\ IsPrefix(Ops(calls), TestOrder)
        /\ \A i \in DOMAIN calls :
            /\ calls[i].op = "test" => calls[i].state = "Loaded"
            /\ calls[i].op \notin {"build_new_model", "train", "save_model"}
        /\ saved = "none"
        /\ (pc = "done" /\ err = "none") => Ops(calls) = TestOrder /\ model.state = "Loaded"

C2_Witness ==
    /\ subroutine = "test_model"
    /\ model_type = "mlp"
    /\ pc = "done"
    /\ err = "none"
    /\ Ops(calls) = TestOrder
    /\ Len(stdout) = 1
    /\ stdout[1].title = "Testing Report"

\* C3: every convolutional-network model that a subcommand constructs was
\* given the input dictionary carrying total_test_samples.
C3_CnnGivenShape ==
    construction.kind = "CnnModel" => construction.in_dict

\* C4: with an unrecognized model type, each of train_model, test_model and
\* predict, once it has reached the choice of the model, fails with
\* UnsupportedModelTypeError and has attempted no model operation.
C4_UnsupportedModelType ==
    (/\ model_type \notin Recognized
     /\ pc = "done"
     /\ \/ subroutine = "predict"
        \/ subroutine \in {"train_model", "test_model"} /\ input_dict # NoDict) =>
        /\ err = "UnsupportedModelTypeError"
        /\ calls = <<>>

\* C5: on an unrecognized subprogram (get_subroutine) or input type
\* (read_input_data) the routine ends with a typed failure and the process has
\* not been terminated.
C5_TypedFailureNoExit ==
    (/\ pc \in {"done", "returned"}
     /\ \/ subroutine = "none" /\ subprogram \notin {"train", "test", "predict", "none"}
        \/ input_type \notin {"train", "test", "none"}) =>
        /\ err \in TypedErrors
        /\ ~exited

\* C6: a second run of read_input_data over the same directories with the
\* same arguments yields the same training and testing datasets, record for
\* record and in the same order.
C6_SameDatasetsEveryRun ==
    [][(pc = "returned" /\ pc' = "returned") =>
        /\ input_dict'.training = input_dict.training
        /\ input_dict'.testing = input_dict.testing]_vars

\* C7 as stated: predict, for each recognized model type, constructs the
\* model, calls load_model and then fails with NotImplementedError; it never
\* calls the model's predict operation and never writes the prediction output
\* file.
C7_PredictAlwaysNotImplemented ==
    (subroutine = "predict" /\ model_type \in Recognized) =>
        /\ "predict" \notin Range(Ops(calls))
        /\ ~prediction_output
        /\ pc = "done" =>
            /\ model.kind = ModelKind(model_type)
            /\ Ops(calls) = PredictOrder
            /\ err = "NotImplementedError"

\* C7, amended: predict, for each recognized model type, calls the constructor
\* of that type and binds the model only if the constructor returns; it calls
\* load_model exactly when the model was constructed and calls nothing else; it
\* never ends normally: it ends with the constructor's error, else with
\* load_model's error, else with NotImplementedError; it never calls the
\* model's predict operation and never writes the prediction output file.
C7_PredictNotImplemented ==
    (subroutine = "predict" /\ model_type \in Recognized) =>
        /\ IsPrefix(Ops(calls), PredictOrder)
        /\ "predict" \notin Range(Ops(calls))
        /\ ~prediction_output
        /\ pc \in {"predict_load", "done"} =>
            /\ construction.kind = ModelKind(model_type)
            /\ model.kind \in {ModelKind(model_type), "Unbound"}
        /\ pc = "predict_load" => model.kind = ModelKind(model_type) /\ err = "none"
        /\ pc = "done" =>
            /\ err # "none"
            /\ IF model.kind = "Unbound"
               THEN /\ calls = <<>>
                    /\ construction = [kind |-> "CnnModel", in_dict |-> FALSE]
                    /\ err = CnnModel(FALSE).err
               ELSE /\ Ops(calls) = PredictOrder
                    /\ calls[1].state = "Unbuilt"
                    /\ err = IF calls[1].err = "none" THEN "NotImplementedError"
                             ELSE calls[1].err

C7_Witness ==
    /\ subroutine = "predict"
    /\ model_type = "mlp"
    /\ pc = "done"
    /\ model.kind = "MlpModel"
    /\ model.state = "Loaded"
    /\ Ops(calls) = PredictOrder
    /\ calls[1].err = "none"
    /\ err = "NotImplementedError"
    /\ ~prediction_output

\* the places (class, position) of a segmentation that hold record x
Places(seg, x) ==
    {p \in UNION {{<<k, j>> : j \in DOMAIN seg[k]} : k \in ClassKey} :
        seg[p[1]][p[2]] = x}

SegmentSizes(seg) == [i \in DOMAIN ClassOrder |-> Len(seg[ClassOrder[i]])]

\* C8: in the dictionary read_input_data returns, every record of the dataset
\* under "testing" sits in exactly one class segment, the segment of its
\* label's class and with that label, and the segment sizes sum to the number
\* of testing records; "testing" is the assembled testing dataset itself and
\* "training" the assembled training dataset, neither segmented nor changed.
C8_SegmentsPartitionTesting ==
    (pc = "returned" /\ err = "none") =>
        LET t == input_dict.testing
            seg == input_dict.testing_segmented
            assembled_test == read_concat_svm_files(testing_dir, test_files)
            assembled_train == read_concat_svm_files(training_dir, train_files)
        IN /\ \A i \in DOMAIN t.data :
                /\ Cardinality(Places(seg.data, t.data[i])) = 1
                /\ \A p \in Places(seg.data, t.data[i]) :
                    /\ p[1] = ClassTable[t.labels[i]]
                    /\ seg.labels[p[1]][p[2]] = t.labels[i]
           /\ SumSeq(SegmentSizes(seg.data)) = Len(t.data)
           /\ SumSeq(SegmentSizes(seg.labels)) = Len(t.labels)
           /\ t.data = assembled_test.data /\ t.labels = assembled_test.labels
           /\ input_type = "train" =>
                /\ input_dict.training.data = assembled_train.data
                /\ input_dict.training.labels = assembled_train.labels
           /\ input_type = "test" => "training" \notin input_dict.keys

C8_Witness ==
    /\ pc = "returned"
    /\ err = "none"
    /\ input_type = "train"
    /\ Len(input_dict.training.data) = 1
    /\ Len(input_dict.testing.data) = 3
    /\ Len(input_dict.testing_segmented.data["A1"]) = 2
    /\ Len(input_dict.testing_segmented.data["Ac"]) = 1
    /\ input_dict.testing.labels = <<1, 2, 1>>

\* C9: in the testing report a subcommand prints, the cells of the confusion matrix sum to
\* the number of records, and the accuracy on its diagonal (0 when there are
\* no records) is the testing accuracy the report states.
C9_ReportConsistent ==
    (pc = "done" /\ stdout # <<>>) =>
        LET r == stdout[Len(stdout)]
            cm == r.confusion_matrix
            rows == [i \in DOMAIN ClassOrder |-> SumSeq(cm[i])]
            total == SumSeq(rows)
            diag == SumSeq([i \in DOMAIN ClassOrder |-> cm[i][i]])
        IN /\ total = Len(y_true)
           /\ r.testing_accuracy.den > 0
           /\ IF total = 0 THEN r.testing_accuracy.num = 0
              ELSE r.testing_accuracy.num * total = diag * r.testing_accuracy.den

C9_Witness ==
    /\ subroutine = "test_model"
    /\ pc = "done"
    /\ Len(stdout) = 1
    /\ stdout[1].title = "Testing Report"
    /\ y_true = <<1, 2>>
    /\ y_pred = <<1, 3>>
    /\ stdout[1].confusion_matrix[1][1] = 1
    /\ stdout[1].confusion_matrix[2][3] = 1
    /\ stdout[1].testing_accuracy = [num |-> 1, den |-> 2]

\* C10: total_test_samples in the dictionary read_input_data returns is the
\* number of records of the testing dataset, in both input modes.
C10_TotalTestSamples ==
    (pc = "returned" /\ err = "none") =>
        input_dict.total_test_samples = Len(input_dict.testing.labels)

====
